---- MODULE Spec2Model ----
(***************************************************************************)
(* A model of src/src/filesystem/server.py: the path sandbox               *)
(* (set_allowed_dirs, validate_path, convert_to_virtual_path) and the tool *)
(* handlers of handle_call_tool, over a small POSIX file tree.             *)
(*                                                                         *)
(* A Python str is a sequence of one-character strings, so that            *)
(* startswith, slicing, lstrip and the os.path functions are computed on   *)
(* characters exactly as the code computes them.                           *)
(***************************************************************************)
EXTENDS Integers, Sequences, FiniteSets, TLC

\* ------------------------------------------------------------------ bounds
\* The number of tool requests handle_call_tool serves in one run.
MaxRequests == 2
\* The number of paths in one read_multiple_files request.
MaxBatch == 3

\* ----------------------------------------------------------------- strings
Sep == "/"

\* name = x, once: Op is the code that follows the assignment, with the name
\* as its parameter
With(x, Op(_)) == Op(x)

\* str.startswith
StartsWith(s, t) == Len(t) <= Len(s) /\ SubSeq(s, 1, Len(t)) = t

\* s[n:]
Drop(s, n) == SubSeq(s, n + 1, Len(s))

\* str.lstrip(ch)
RECURSIVE LStrip(_, _)
LStrip(s, ch) == IF s # <<>> /\ Head(s) = ch THEN LStrip(Tail(s), ch) ELSE s

\* str.rstrip(ch)
RECURSIVE RStrip(_, _)
RStrip(s, ch) ==
    IF s # <<>> /\ s[Len(s)] = ch THEN RStrip(SubSeq(s, 1, Len(s) - 1), ch) ELSE s

\* str.split(ch): the pieces between the occurrences of ch
RECURSIVE SplitAcc(_, _, _)
SplitAcc(s, ch, cur) ==
    IF s = <<>> THEN <<cur>>
    ELSE IF Head(s) = ch THEN <<cur>> \o SplitAcc(Tail(s), ch, <<>>)
    ELSE SplitAcc(Tail(s), ch, Append(cur, Head(s)))

Split(s, ch) == SplitAcc(s, ch, <<>>)

\* ch.join(parts)
RECURSIVE JoinWith(_, _)
JoinWith(parts, ch) ==
    IF parts = <<>> THEN <<>>
    ELSE IF Len(parts) = 1 THEN parts[1]
    ELSE parts[1] \o <<ch>> \o JoinWith(Tail(parts), ch)

\* s.rfind(ch) + 1: the 1-based index of the last occurrence of ch, 0 if none
RECURSIVE RFind1(_, _)
RFind1(s, ch) ==
    IF s = <<>> THEN 0
    ELSE IF s[Len(s)] = ch THEN Len(s)
    ELSE RFind1(SubSeq(s, 1, Len(s) - 1), ch)

\* whether t occurs in s (the Python expression t in s)
Contains(s, t) ==
    \E i \in 0..(Len(s) - Len(t)) : SubSeq(s, i + 1, i + Len(t)) = t

\* str.lower, on the characters the model uses
LowerChar(c) == IF c = "F" THEN "f" ELSE IF c = "S" THEN "s" ELSE c

Lower(s) == [i \in 1..Len(s) |-> LowerChar(s[i])]

\* The order of characters (their code points), for sorted()
Ord(c) ==
    CASE c = "\n" -> 10
      [] c = "*" -> 42
      [] c = "." -> 46
      [] c = "/" -> 47
      [] c = "F" -> 70
      [] c = "S" -> 83
      [] c = "a" -> 97
      [] c = "b" -> 98
      [] c = "d" -> 100
      [] c = "e" -> 101
      [] c = "f" -> 102
      [] c = "g" -> 103
      [] c = "l" -> 108
      [] c = "m" -> 109
      [] c = "s" -> 115
      [] c = "t" -> 116
      [] c = "w" -> 119
      [] c = "x" -> 120
      [] c = "~" -> 126
      [] OTHER -> 0

\* s < t for two str
RECURSIVE StrLess(_, _)
StrLess(s, t) ==
    IF t = <<>> THEN FALSE
    ELSE IF s = <<>> THEN TRUE
    ELSE IF Head(s) = Head(t) THEN StrLess(Tail(s), Tail(t))
    ELSE Ord(Head(s)) < Ord(Head(t))

\* sorted(list of str)
RECURSIVE InsertSorted(_, _)
InsertSorted(x, xs) ==
    IF xs = <<>> THEN <<x>>
    ELSE IF StrLess(Head(xs), x) THEN <<Head(xs)>> \o InsertSorted(x, Tail(xs))
    ELSE <<x>> \o xs

RECURSIVE Sorted(_)
Sorted(xs) == IF xs = <<>> THEN <<>> ELSE InsertSorted(Head(xs), Sorted(Tail(xs)))

\* ----------------------------------------------------------------- os.path
\* The process's working directory and the user's home directory.
Cwd == <<"/", "w">>
Home == <<"/", "w", "x">>

\* os.path.isabs
IsAbs(p) == StartsWith(p, <<Sep>>)

\* os.path.join(a, b)
PathJoin(a, b) ==
    IF IsAbs(b) THEN b
    ELSE IF a = <<>> \/ a[Len(a)] = Sep THEN a \o b
    ELSE a \o <<Sep>> \o b

\* The loop of os.path.normpath over the components
RECURSIVE NormComps(_, _, _)
NormComps(comps, abs, acc) ==
    IF comps = <<>> THEN acc
    ELSE LET c == Head(comps) IN
         IF c = <<>> \/ c = <<".">> THEN NormComps(Tail(comps), abs, acc)
         ELSE IF c # <<".", ".">>
                 \/ (~abs /\ acc = <<>>)
                 \/ (acc # <<>> /\ acc[Len(acc)] = <<".", ".">>)
              THEN NormComps(Tail(comps), abs, Append(acc, c))
         ELSE IF acc # <<>>
              THEN NormComps(Tail(comps), abs, SubSeq(acc, 1, Len(acc) - 1))
         ELSE NormComps(Tail(comps), abs, acc)

\* os.path.normpath
NormPath(p) ==
    IF p = <<>> THEN <<".">>
    ELSE With(IF ~IsAbs(p) THEN <<>>
              ELSE IF StartsWith(p, <<Sep, Sep>>) /\ ~StartsWith(p, <<Sep, Sep, Sep>>)
                   THEN <<Sep, Sep>>
              ELSE <<Sep>>, LAMBDA slashes :
         With(slashes \o JoinWith(NormComps(Split(p, Sep), slashes # <<>>, <<>>), Sep),
              LAMBDA path : IF path = <<>> THEN <<".">> ELSE path))

\* os.path.abspath
AbsPath(p) == NormPath(IF IsAbs(p) THEN p ELSE PathJoin(Cwd, p))

\* os.path.expanduser: "~" and "~/..." name the home directory; "~user" names
\* a user the password database does not know, and the path is left as it is
ExpandUser(p) ==
    IF ~StartsWith(p, <<"~">>) THEN p
    ELSE IF Len(p) = 1 \/ p[2] = Sep
         THEN LET r == RStrip(Home, Sep) \o Drop(p, 1)
              IN IF r = <<>> THEN <<Sep>> ELSE r
    ELSE p

\* os.path.dirname
DirName(p) ==
    With(SubSeq(p, 1, RFind1(p, Sep)), LAMBDA head :
         IF head # <<>> /\ LStrip(head, Sep) # <<>> THEN RStrip(head, Sep) ELSE head)

\* os.path.basename
BaseName(p) == Drop(p, RFind1(p, Sep))

\* os.path.relpath(path, start), both absolute
RECURSIVE CommonLen(_, _)
CommonLen(a, b) ==
    IF a = <<>> \/ b = <<>> \/ Head(a) # Head(b) THEN 0
    ELSE 1 + CommonLen(Tail(a), Tail(b))

RelPath(path, start) ==
    With(SelectSeq(Split(AbsPath(start), Sep), LAMBDA c : c # <<>>), LAMBDA start_list :
    With(SelectSeq(Split(AbsPath(path), Sep), LAMBDA c : c # <<>>), LAMBDA path_list :
    With(CommonLen(start_list, path_list), LAMBDA i :
    With([k \in 1..(Len(start_list) - i) |-> <<".", ".">>] \o Drop(path_list, i), LAMBDA rel_list :
         IF rel_list = <<>> THEN <<".">> ELSE JoinWith(rel_list, Sep)))))

\* ------------------------------------------------------------- file system
\* The file tree is a function from absolute normalized paths to nodes: a
\* directory, a regular file with its content, or a symbolic link with its
\* target. Every node's parent is a directory of the tree.
DirNode == [kind |-> "dir", data |-> <<>>]
FileNode(content) == [kind |-> "file", data |-> content]
LinkNode(target) == [kind |-> "link", data |-> target]

Root == <<"/">>
W == <<"/", "w">>
WF == <<"/", "w", "/", "f">>
WE == <<"/", "w", "/", "e">>
WS == <<"/", "w", "/", "s">>
WSF == <<"/", "w", "/", "s", "/", "f">>
WST == <<"/", "w", "/", "s", "/", "t">>
WSTF == <<"/", "w", "/", "s", "/", "t", "/", "F">>
WL == <<"/", "w", "/", "l">>
WM == <<"/", "w", "/", "m">>
WX == <<"/", "w", "x">>
WXF == <<"/", "w", "x", "/", "f">>

\* The tree the server is started on: /w is to be allow-listed; /wx is a
\* sibling whose name /w is a string prefix of; /w/l is a symlink out of /w and
\* /w/m a symlink that stays inside it; /w/e is an empty directory.
InitFS ==
    (Root :> DirNode) @@ (W :> DirNode) @@ (WX :> DirNode)
    @@ (WF :> FileNode(<<"a", "\n", "b", "\n">>))
    @@ (WE :> DirNode) @@ (WS :> DirNode)
    @@ (WSF :> FileNode(<<"b", "\n">>))
    @@ (WST :> DirNode)
    @@ (WSTF :> FileNode(<<"a">>))
    @@ (WL :> LinkNode(WX)) @@ (WM :> LinkNode(WS))
    @@ (WXF :> FileNode(<<"x", "\n">>))

\* os.path.islink (lstat of a path whose directory is already resolved)
IsLink(f, p) == p \in DOMAIN f /\ f[p].kind = "link"

\* str.partition(sep): the text before the first separator, and the text after it
Partition(s) ==
    With(Split(s, Sep), LAMBDA parts : [name |-> parts[1], rest |-> JoinWith(Tail(parts), Sep)])

\* posixpath._joinrealpath with strict=False: a component that does not exist
\* is kept as it is, a symlink is replaced by its resolved target. (Its `seen`
\* cache only serves symlink loops, which no tool can create.)
RECURSIVE JoinRealPath(_, _, _)
JoinRealPath(f, path, rest) ==
    IF IsAbs(rest) THEN JoinRealPath(f, <<Sep>>, Drop(rest, 1))
    ELSE IF rest = <<>> THEN path
    ELSE With(Partition(rest), LAMBDA part :
         IF part.name = <<>> \/ part.name = <<".">> THEN JoinRealPath(f, path, part.rest)
         ELSE IF part.name = <<".", ".">>
              THEN IF path = <<>> THEN JoinRealPath(f, part.name, part.rest)
                   ELSE IF BaseName(path) = <<".", ".">>
                        THEN JoinRealPath(f, PathJoin(path, part.name), part.rest)
                   ELSE JoinRealPath(f, DirName(path), part.rest)
         ELSE With(PathJoin(path, part.name), LAMBDA newpath :
              IF ~IsLink(f, newpath) THEN JoinRealPath(f, newpath, part.rest)
              ELSE JoinRealPath(f, JoinRealPath(f, path, f[newpath].data), part.rest)))

\* os.path.realpath (strict=False)
RealPath(f, p) == AbsPath(JoinRealPath(f, <<>>, p))

\* os.path.realpath(p) raising FileNotFoundError: without strict=True it never
\* does, whether or not p exists
RealPathRaises(f, p) == FALSE

\* os.path.exists, isdir, isfile: they follow symlinks
Exists(f, p) == RealPath(f, p) \in DOMAIN f

IsDir(f, p) == With(RealPath(f, p), LAMBDA r : r \in DOMAIN f /\ f[r].kind = "dir")

IsFile(f, p) == With(RealPath(f, p), LAMBDA r : r \in DOMAIN f /\ f[r].kind = "file")

\* The proper ancestors of an absolute normalized path
RECURSIVE Ancestors(_)
Ancestors(p) == IF p = Root \/ p = <<>> THEN {} ELSE {DirName(p)} \cup Ancestors(DirName(p))

\* The nodes under directory d, and its entries' names in listing order
Under(f, d) == {p \in DOMAIN f : d \in Ancestors(p)}
Children(f, d) == {p \in DOMAIN f : p # d /\ DirName(p) = d}

RECURSIVE SetToSortedSeq(_)
SetToSortedSeq(S) ==
    IF S = {} THEN <<>>
    ELSE LET m == CHOOSE x \in S : \A y \in S : y = x \/ StrLess(x, y)
         IN <<m>> \o SetToSortedSeq(S \ {m})

\* An operating-system call's outcome: ok with a value, or the OSError raised,
\* whose message names the paths the call was given
OsOk(v) == [ok |-> TRUE, value |-> v, exc |-> "", msg |-> "", paths |-> <<>>]
OsErr(exc, msg, paths) == [ok |-> FALSE, value |-> <<>>, exc |-> exc, msg |-> msg, paths |-> paths]

\* The error of a path that does not resolve: ENOTDIR when a file stands where
\* a directory is needed, ENOENT otherwise
Missing(f, p, paths) ==
    IF \E a \in Ancestors(p) : a \in DOMAIN f /\ f[a].kind = "file"
    THEN OsErr("NotADirectoryError", "Not a directory", paths)
    ELSE OsErr("FileNotFoundError", "No such file or directory", paths)

\* open(p, "r").read()
ReadFile(f, p) ==
    With(RealPath(f, p), LAMBDA r :
         IF r \notin DOMAIN f THEN Missing(f, r, <<p>>)
         ELSE IF f[r].kind = "dir" THEN OsErr("IsADirectoryError", "Is a directory", <<p>>)
         ELSE OsOk(f[r].data))

\* open(p, "w").write(content): the outcome and the tree afterwards
WriteFile(f, p, content) ==
    With(RealPath(f, p), LAMBDA r :
         IF r \in DOMAIN f
         THEN IF f[r].kind = "dir"
              THEN [res |-> OsErr("IsADirectoryError", "Is a directory", <<p>>), fs |-> f]
              ELSE [res |-> OsOk(<<>>), fs |-> [f EXCEPT ![r] = FileNode(content)]]
         ELSE IF IsDir(f, DirName(r))
              THEN [res |-> OsOk(<<>>), fs |-> (r :> FileNode(content)) @@ f]
         ELSE [res |-> Missing(f, r, <<p>>), fs |-> f])

\* os.listdir(p): the entries' names (in the model, in sorted order)
ListDir(f, p) ==
    With(RealPath(f, p), LAMBDA r :
         IF r \notin DOMAIN f THEN Missing(f, r, <<p>>)
         ELSE IF f[r].kind # "dir" THEN OsErr("NotADirectoryError", "Not a directory", <<p>>)
         ELSE OsOk(SetToSortedSeq({BaseName(c) : c \in Children(f, r)})))

\* os.stat(p)
Stat(f, p) ==
    With(RealPath(f, p), LAMBDA r :
         IF r \notin DOMAIN f THEN Missing(f, r, <<p>>)
         ELSE OsOk(<<f[r].kind, Len(f[r].data)>>))

\* os.makedirs(p, exist_ok=True)
MakeDirs(f, p) ==
    With(RealPath(f, p), LAMBDA r :
    With({a \in Ancestors(r) : a \in DOMAIN f /\ f[a].kind = "file"}, LAMBDA blocked :
         IF blocked # {}
         THEN [res |-> OsErr("NotADirectoryError", "Not a directory",
                             <<CHOOSE a \in Ancestors(r) \cup {r} : DirName(a) \in blocked>>),
               fs |-> f]
         ELSE IF r \in DOMAIN f /\ f[r].kind # "dir"
              THEN [res |-> OsErr("FileExistsError", "File exists", <<p>>), fs |-> f]
         ELSE [res |-> OsOk(<<>>),
               fs |-> [a \in {a \in Ancestors(r) \cup {r} : a \notin DOMAIN f} |-> DirNode] @@ f]))

\* os.rename(src, dst) on POSIX (rename(2)): the final component is not
\* followed; an existing destination is replaced when it is a file (and the
\* source is one) or an empty directory (and the source is a directory)
Rename(f, src, dst) ==
    LET both == <<src, dst>>
        moved == {src} \cup Under(f, src)
        move(p) == dst \o Drop(p, Len(src))
        fail(exc, msg) == [res |-> OsErr(exc, msg, both), fs |-> f]
    IN IF src \notin DOMAIN f THEN [res |-> Missing(f, src, both), fs |-> f]
       ELSE IF ~IsDir(f, DirName(dst)) THEN [res |-> Missing(f, dst, both), fs |-> f]
       ELSE IF src = dst THEN [res |-> OsOk(<<>>), fs |-> f]
       ELSE IF src \in Ancestors(dst) THEN
            IF f[src].kind = "dir" THEN fail("OSError", "Invalid argument")
            ELSE fail("NotADirectoryError", "Not a directory")
       ELSE IF dst \in DOMAIN f /\ f[src].kind = "dir" /\ f[dst].kind # "dir"
            THEN fail("NotADirectoryError", "Not a directory")
       ELSE IF dst \in DOMAIN f /\ f[src].kind = "dir" /\ Children(f, dst) # {}
            THEN fail("OSError", "Directory not empty")
       ELSE IF dst \in DOMAIN f /\ f[src].kind # "dir" /\ f[dst].kind = "dir"
            THEN fail("IsADirectoryError", "Is a directory")
       ELSE [res |-> OsOk(<<>>),
             fs |-> [p \in ((DOMAIN f \ moved) \ {dst}) \cup {move(q) : q \in moved} |->
                        IF \E q \in moved : move(q) = p
                        THEN f[CHOOSE q \in moved : move(q) = p]
                        ELSE f[p]]]

\* ------------------------------------------------------------------- state
VARIABLES
    phase,            \* "start" before main() has configured the server, then "serving"
    allowed_dirs,     \* _allowed_dirs: the list of allowed real directories
    virtual_to_real,  \* _virtual_to_real: a dict, as its items in insertion order
    real_to_virtual,  \* _real_to_virtual: a dict, as its items in insertion order
    fs,               \* the file tree
    nreq,             \* the number of tool requests served
    lastResult        \* the last request and the text handle_call_tool returned for it

vars == <<phase, allowed_dirs, virtual_to_real, real_to_virtual, fs, nreq, lastResult>>
maps == <<allowed_dirs, virtual_to_real, real_to_virtual>>

\* ------------------------------------------------------------ Python dicts
\* A dict is the sequence of its items <<key, value>> in insertion order.
DictKeys(d) == [i \in 1..Len(d) |-> d[i][1]]
DictHas(d, k) == \E i \in 1..Len(d) : d[i][1] = k
DictGet(d, k) == d[CHOOSE i \in 1..Len(d) : d[i][1] = k][2]

\* d[k] = v: a new key is appended, an old key keeps its place and gets v
DictSet(d, k, v) ==
    IF DictHas(d, k)
    THEN [i \in 1..Len(d) |-> IF d[i][1] = k THEN <<k, v>> ELSE d[i]]
    ELSE Append(d, <<k, v>>)

\* {key(x): value(x) for x in items}
RECURSIVE DictFrom(_, _)
DictFrom(items, acc) ==
    IF items = <<>> THEN acc
    ELSE DictFrom(Tail(items), DictSet(acc, Head(items)[1], Head(items)[2]))

\* ----------------------------------------------------------------- sandbox
\* chr(97 + i)
Chr97(i) ==
    CASE i = 0 -> "a" [] i = 1 -> "b" [] i = 2 -> "c" [] i = 3 -> "d" [] OTHER -> "{"

\* f"/data/{chr(97 + i)}"
Alias(i) == <<"/", "d", "a", "t", "a", "/", Chr97(i)>>

\* set_allowed_dirs: the three module-level values it assigns
SetAllowedDirs(dirs) ==
    With([i \in 1..Len(dirs) |-> AbsPath(ExpandUser(dirs[i]))], LAMBDA allowed :
    With(DictFrom([i \in 1..Len(allowed) |-> <<Alias(i - 1), allowed[i]>>], <<>>), LAMBDA v2r :
         [allowed_dirs |-> allowed,
          virtual_to_real |-> v2r,
          real_to_virtual |-> DictFrom([i \in 1..Len(v2r) |-> <<v2r[i][2], v2r[i][1]>>], <<>>)]))

\* What a call returns or raises: ok with a value, or an exception with its
\* class, the fixed part of its message and the paths its message embeds
Return(v) == [ok |-> TRUE, value |-> v, exc |-> "", msg |-> "", paths |-> <<>>]
Raise(exc, msg, paths) == [ok |-> FALSE, value |-> <<>>, exc |-> exc, msg |-> msg, paths |-> paths]

\* any(p.startswith(allowed_dir + os.sep) or p == allowed_dir for allowed_dir in _allowed_dirs)
InAllowedDirsNoSep(allowed, p) ==
    \E i \in 1..Len(allowed) : StartsWith(p, allowed[i]) \/ p = allowed[i]

InAllowedDirs(allowed, p) ==
    \E i \in 1..Len(allowed) : StartsWith(p, allowed[i] \o <<Sep>>) \/ p = allowed[i]

\* validate_path, lines 33-41: the path with its virtual prefix replaced, or,
\* when no virtual directory matches, the path with ~ expanded
ExpandRequested(v2r, requested_path) ==
    With({i \in 1..Len(v2r) :
             StartsWith(requested_path, v2r[i][1] \o <<Sep>>) \/ requested_path = v2r[i][1]},
         LAMBDA hits :
         IF hits # {}
         THEN With(v2r[CHOOSE i \in hits : \A j \in hits : i <= j], LAMBDA item :
              With(LStrip(Drop(requested_path, Len(item[1])), Sep), LAMBDA relative_path :
                   IF relative_path # <<>> THEN PathJoin(item[2], relative_path) ELSE item[2]))
         ELSE ExpandUser(requested_path))

\* validate_path
ValidatePath(f, v2r, allowed, requested_path) ==
    With(NormPath(AbsPath(ExpandRequested(v2r, requested_path))), LAMBDA normalized_path :
         IF ~RealPathRaises(f, normalized_path)
         THEN With(RealPath(f, normalized_path), LAMBDA real_path :
                   IF InAllowedDirs(allowed, real_path) THEN Return(real_path)
                   ELSE Raise("PermissionError", "Access denied", <<real_path>>))
         ELSE With(RealPath(f, DirName(normalized_path)), LAMBDA real_parent :
                   IF ~Exists(f, real_parent)
                   THEN Raise("FileNotFoundError", "Parent directory does not exist",
                              <<real_parent>>)
                   ELSE IF InAllowedDirs(allowed, real_parent) THEN Return(normalized_path)
                   ELSE Raise("PermissionError", "Access denied: parent directory",
                              <<real_parent>>)))

\* convert_to_virtual_path
ConvertToVirtualPathLastHit(r2v, real_path) ==
    With({i \in 1..Len(r2v) :
             StartsWith(real_path, r2v[i][1] \o <<Sep>>) \/ real_path = r2v[i][1]},
         LAMBDA hits :
         IF hits # {}
         THEN With(r2v[CHOOSE i \in hits : \A j \in hits : i >= j], LAMBDA item :
              With(LStrip(Drop(real_path, Len(item[1])), Sep), LAMBDA relative_path :
                   IF relative_path # <<>> THEN PathJoin(item[2], relative_path) ELSE item[2]))
         ELSE real_path)

ConvertToVirtualPath(r2v, real_path) ==
    With({i \in 1..Len(r2v) :
             StartsWith(real_path, r2v[i][1] \o <<Sep>>) \/ real_path = r2v[i][1]},
         LAMBDA hits :
         IF hits # {}
         THEN With(r2v[CHOOSE i \in hits : \A j \in hits : i <= j], LAMBDA item :
              With(LStrip(Drop(real_path, Len(item[1])), Sep), LAMBDA relative_path :
                   IF relative_path # <<>> THEN PathJoin(item[2], relative_path) ELSE item[2]))
         ELSE real_path)

\* ----------------------------------------------------------------- helpers
\* Optional[int]: None is <<>>, the number n is <<n>>
None == <<>>

\* str.splitlines(keepends=True), and the lines a text file iterates over
RECURSIVE SplitLinesAcc(_, _)
SplitLinesAcc(s, cur) ==
    IF s = <<>> THEN (IF cur = <<>> THEN <<>> ELSE <<cur>>)
    ELSE IF Head(s) = "\n" THEN <<Append(cur, "\n")>> \o SplitLinesAcc(Tail(s), <<>>)
    ELSE SplitLinesAcc(Tail(s), Append(cur, Head(s)))

SplitLines(s) == SplitLinesAcc(s, <<>>)

\* "".join(parts)
RECURSIVE Concat(_)
Concat(parts) == IF parts = <<>> THEN <<>> ELSE Head(parts) \o Concat(Tail(parts))

\* head_file_sync, on the file's content
HeadLines(content, num_lines) ==
    With(SplitLines(content), LAMBDA lines :
         Concat(SubSeq(lines, 1, IF num_lines > Len(lines) THEN Len(lines) ELSE num_lines)))

\* tail_file_sync, on the file's content (deque(f, maxlen=num_lines))
TailLines(content, num_lines) ==
    With(SplitLines(content), LAMBDA lines :
         Concat(SubSeq(lines,
                       IF num_lines > Len(lines) THEN 1 ELSE Len(lines) - num_lines + 1,
                       Len(lines))))

\* str.replace(old, new): every non-overlapping occurrence, left to right
RECURSIVE Replace(_, _, _)
Replace(s, old, new) ==
    IF old = <<>>
    THEN (IF s = <<>> THEN new ELSE new \o <<Head(s)>> \o Replace(Tail(s), old, new))
    ELSE IF s = <<>> THEN <<>>
    ELSE IF StartsWith(s, old) THEN new \o Replace(Drop(s, Len(old)), old, new)
    ELSE <<Head(s)>> \o Replace(Tail(s), old, new)

\* The loop of apply_file_edits_sync: the edits applied one after another
RECURSIVE ApplyEdits(_, _)
ApplyEdits(content, edits) ==
    IF edits = <<>> THEN content
    ELSE ApplyEdits(Replace(content, Head(edits).oldText, Head(edits).newText), Tail(edits))

\* "".join(difflib.unified_diff(a, b, fromfile, tofile)): nothing when the two
\* lists of lines are equal, else the two file labels and the changed lines.
\* (difflib's grouping into hunks and their line numbers are left out: the
\* lines between the common prefix and the common suffix form one change.)
UnifiedDiff(a, b, fromfile, tofile) ==
    IF a = b THEN <<>>
    ELSE LET pre == CommonLen(a, b)
             ra == Drop(a, pre)
             rb == Drop(b, pre)
             RevSeq(x) == [i \in 1..Len(x) |-> x[Len(x) + 1 - i]]
             suf == CommonLen(RevSeq(ra), RevSeq(rb))
             mark(c, lines) == Concat([i \in 1..Len(lines) |-> <<c>> \o lines[i]])
         IN <<"-", "-", "-", " ">> \o fromfile \o <<"\n">>
            \o <<"+", "+", "+", " ">> \o tofile \o <<"\n">>
            \o <<"@", "@", "\n">>
            \o mark(" ", SubSeq(a, 1, pre))
            \o mark("-", SubSeq(ra, 1, Len(ra) - suf))
            \o mark("+", SubSeq(rb, 1, Len(rb) - suf))
            \o mark(" ", SubSeq(ra, Len(ra) - suf + 1, Len(ra)))

\* apply_file_edits_sync: the diff it returns (or the error of open) and the
\* tree afterwards
ApplyFileEditsSyncAlwaysWrites(f, path, edits, dry_run) ==
    With(ReadFile(f, path), LAMBDA rd :
         IF ~rd.ok THEN [res |-> rd, fs |-> f]
         ELSE With(ApplyEdits(rd.value, edits), LAMBDA new_content :
                   [res |-> Return(UnifiedDiff(SplitLines(rd.value), SplitLines(new_content),
                                               path, path)),
                    fs |-> WriteFile(f, path, new_content).fs]))

ApplyFileEditsSync(f, path, edits, dry_run) ==
    With(ReadFile(f, path), LAMBDA rd :
         IF ~rd.ok THEN [res |-> rd, fs |-> f]
         ELSE With(ApplyEdits(rd.value, edits), LAMBDA new_content :
              With(UnifiedDiff(SplitLines(rd.value), SplitLines(new_content), path, path),
                   LAMBDA diff_str :
                   IF ~dry_run
                   THEN With(WriteFile(f, path, new_content), LAMBDA wr :
                             [res |-> IF wr.res.ok THEN Return(diff_str) ELSE wr.res,
                              fs |-> wr.fs])
                   ELSE [res |-> Return(diff_str), fs |-> f])))

\* fnmatch.fnmatch(name, pat) on POSIX (no case folding), for patterns made of
\* literal characters, * and ?
RECURSIVE FnMatch(_, _)
FnMatch(name, pat) ==
    IF pat = <<>> THEN name = <<>>
    ELSE IF Head(pat) = "*"
         THEN FnMatch(name, Tail(pat)) \/ (name # <<>> /\ FnMatch(Tail(name), pat))
    ELSE IF Head(pat) = "?" THEN name # <<>> /\ FnMatch(Tail(name), Tail(pat))
    ELSE name # <<>> /\ Head(name) = Head(pat) /\ FnMatch(Tail(name), Tail(pat))

\* any(fnmatch.fnmatch(name, p) for p in exclude_patterns)
Excluded(name, exclude_patterns) ==
    \E i \in 1..Len(exclude_patterns) : FnMatch(name, exclude_patterns[i])

\* One step of os.walk(top): the names of top's entries, the directories
\* (entry.is_dir(), which follows symlinks) and the others
WalkDirs(f, top) == SelectSeq(ListDir(f, top).value, LAMBDA n : IsDir(f, PathJoin(top, n)))
WalkFiles(f, top) == SelectSeq(ListDir(f, top).value, LAMBDA n : ~IsDir(f, PathJoin(top, n)))

\* search_files, line 142: the directories kept for the walk
KeptDirsUnpruned(dirs, exclude_patterns) == dirs

KeptDirs(dirs, exclude_patterns) ==
    SelectSeq(dirs, LAMBDA d : ~Excluded(d, exclude_patterns))

\* search_files, lines 141-153: the loop body for the directory `root` and,
\* as os.walk goes on, for every kept directory below it that is no symlink
RECURSIVE SearchWalk(_, _, _, _, _, _)
RECURSIVE SearchWalkDirs(_, _, _, _, _, _, _)
SearchEntry(f, r2v, virtual_root, root, name) ==
    With(PathJoin(root, name), LAMBDA real_path :
    With(RelPath(ConvertToVirtualPath(r2v, real_path), virtual_root), LAMBDA relative_path :
         IF IsDir(f, real_path) THEN relative_path \o <<"/">> ELSE relative_path))

SearchWalk(f, r2v, virtual_root, root, pattern, exclude_patterns) ==
    IF ~IsDir(f, root) THEN <<>>
    ELSE With(KeptDirs(WalkDirs(f, root), exclude_patterns), LAMBDA dirs :
         With(SelectSeq(WalkFiles(f, root), LAMBDA n : ~Excluded(n, exclude_patterns)),
              LAMBDA files :
         With(SelectSeq(dirs \o files, LAMBDA n : FnMatch(Lower(n), Lower(pattern))),
              LAMBDA names :
              [i \in 1..Len(names) |-> SearchEntry(f, r2v, virtual_root, root, names[i])]
              \o SearchWalkDirs(f, r2v, virtual_root, root, dirs, pattern, exclude_patterns))))

SearchWalkDirs(f, r2v, virtual_root, top, dirs, pattern, exclude_patterns) ==
    IF dirs = <<>> THEN <<>>
    ELSE With(PathJoin(top, Head(dirs)), LAMBDA new_path :
              (IF IsLink(f, new_path) THEN <<>>
               ELSE SearchWalk(f, r2v, virtual_root, new_path, pattern, exclude_patterns))
              \o SearchWalkDirs(f, r2v, virtual_root, top, Tail(dirs), pattern, exclude_patterns))

\* search_files: the lines after "Contents of <virtual_root>:"
SearchFiles(f, r2v, root_path, pattern, exclude_patterns) ==
    With(ConvertToVirtualPath(r2v, root_path), LAMBDA virtual_root :
    With(SearchWalk(f, r2v, virtual_root, root_path, pattern, exclude_patterns), LAMBDA results :
         [virtual_root |-> virtual_root,
          lines |-> IF results # <<>> THEN Sorted(results) ELSE << <<"No matches found">> >>,
          found |-> results # <<>>]))

\* build_directory_tree, lines 104-123: the loop body for the directory `root`
\* (skipped for the requested path itself) and for the directories below it
RECURSIVE TreeWalk(_, _, _, _, _)
RECURSIVE TreeWalkDirs(_, _, _, _, _, _)
TreeFileEntry(r2v, virtual_root, root, file) ==
    RelPath(ConvertToVirtualPath(r2v, PathJoin(root, file)), virtual_root)

TreeDirEntry(r2v, virtual_root, root, dir) ==
    RelPath(ConvertToVirtualPath(r2v, PathJoin(root, dir)), virtual_root) \o <<"/">>

TreeWalk(f, r2v, virtual_root, path, root) ==
    IF ~IsDir(f, root) THEN <<>>
    ELSE With(WalkDirs(f, root), LAMBDA dirs :
         With(WalkFiles(f, root), LAMBDA files :
         With(SelectSeq(dirs, LAMBDA d : ListDir(f, PathJoin(root, d)).value = <<>>),
              LAMBDA emptyDirs :
              (IF root = path THEN <<>>
               ELSE [i \in 1..Len(files) |-> TreeFileEntry(r2v, virtual_root, root, files[i])]
                    \o [i \in 1..Len(emptyDirs) |->
                           TreeDirEntry(r2v, virtual_root, root, emptyDirs[i])])
              \o TreeWalkDirs(f, r2v, virtual_root, path, root, dirs))))

TreeWalkDirs(f, r2v, virtual_root, path, top, dirs) ==
    IF dirs = <<>> THEN <<>>
    ELSE With(PathJoin(top, Head(dirs)), LAMBDA new_path :
              (IF IsLink(f, new_path) THEN <<>>
               ELSE TreeWalk(f, r2v, virtual_root, path, new_path))
              \o TreeWalkDirs(f, r2v, virtual_root, path, top, Tail(dirs)))

\* build_directory_tree: the lines after "Contents of <virtual_root>:", or the
\* error of os.listdir(path)
BuildDirectoryTree(f, r2v, path) ==
    With(ConvertToVirtualPath(r2v, path), LAMBDA virtual_root :
    With(TreeWalk(f, r2v, virtual_root, path, path), LAMBDA paths :
    With(ListDir(f, path), LAMBDA root_contents :
         IF ~root_contents.ok THEN root_contents
         ELSE Return([virtual_root |-> virtual_root,
                      lines |-> Sorted(IF root_contents.value = <<>>
                                       THEN Append(paths, virtual_root \o <<"/">>)
                                       ELSE paths)]))))

\* ---------------------------------------------------------- handle_call_tool
\* validate_path and convert_to_virtual_path on the module's current state
Validate(requested_path) == ValidatePath(fs, virtual_to_real, allowed_dirs, requested_path)
ToVirtual(real_path) == ConvertToVirtualPath(real_to_virtual, real_path)

\* What handle_call_tool returns, with the request it answers: the text of a
\* successful tool (`paths`: the path strings the text holds, `body`: the rest
\* of it), or, from the handler of line 392, "Error: " + str(e) for the
\* exception e (`stage`: the call that raised it)
Success(tool, args, paths, body) ==
    [tool |-> tool, args |-> args, ok |-> TRUE, stage |-> "", exc |-> "", msg |-> "",
     paths |-> paths, body |-> body]
Failure(tool, args, stage, e) ==
    [tool |-> tool, args |-> args, ok |-> FALSE, stage |-> stage, exc |-> e.exc, msg |-> e.msg,
     paths |-> e.paths, body |-> <<>>]

NoResult == Success("", <<>>, <<>>, <<>>)

\* read_file
HandleReadFile(path, head, tail) ==
    With([path |-> path, head |-> head, tail |-> tail], LAMBDA args :
    With(Validate(path), LAMBDA v :
         IF ~v.ok THEN Failure("read_file", args, "validate_path", v)
         ELSE IF head # None /\ tail # None
              THEN Failure("read_file", args, "arguments",
                           Raise("ValueError", "Cannot specify both head and tail", <<>>))
         ELSE With(ReadFile(fs, v.value), LAMBDA rd :
                   IF ~rd.ok THEN Failure("read_file", args, "open", rd)
                   ELSE Success("read_file", args, <<>>,
                                << IF tail # None THEN TailLines(rd.value, tail[1])
                                   ELSE IF head # None THEN HeadLines(rd.value, head[1])
                                   ELSE rd.value >>))))

\* read_multiple_files, lines 306-316: the blocks appended for the paths
RECURSIVE ReadMultipleLoop(_, _)
RECURSIVE ReadMultipleLoopStopsAtError(_, _)
ReadBlock(file_path, v) ==
    IF ~v.ok
    THEN [input |-> file_path, ok |-> FALSE, header |-> file_path,
          text |-> <<>>, exc |-> v.exc, paths |-> <<file_path>> \o v.paths]
    ELSE With(ReadFile(fs, v.value), LAMBDA rd :
         IF ~rd.ok
         THEN [input |-> file_path, ok |-> FALSE, header |-> file_path,
               text |-> <<>>, exc |-> rd.exc, paths |-> <<file_path>> \o rd.paths]
         ELSE With(ToVirtual(v.value), LAMBDA virtual_path :
                   [input |-> file_path, ok |-> TRUE, header |-> virtual_path,
                    text |-> rd.value, exc |-> "", paths |-> <<virtual_path>>]))

ReadMultipleLoopStopsAtError(paths, processed_paths) ==
    IF paths = <<>> THEN <<>>
    ELSE IF Head(paths) \in processed_paths
         THEN ReadMultipleLoopStopsAtError(Tail(paths), processed_paths)
    ELSE With(ReadBlock(Head(paths), Validate(Head(paths))), LAMBDA block :
              IF ~block.ok THEN <<block>>
              ELSE <<block>> \o ReadMultipleLoopStopsAtError(Tail(paths),
                                                             processed_paths \cup {Head(paths)}))

ReadMultipleLoop(paths, processed_paths) ==
    IF paths = <<>> THEN <<>>
    ELSE IF Head(paths) \in processed_paths THEN ReadMultipleLoop(Tail(paths), processed_paths)
    ELSE <<ReadBlock(Head(paths), Validate(Head(paths)))>>
         \o ReadMultipleLoop(Tail(paths), processed_paths \cup {Head(paths)})

\* read_multiple_files
HandleReadMultipleFiles(paths) ==
    With(ReadMultipleLoop(paths, {}), LAMBDA results :
         Success("read_multiple_files", [paths |-> paths],
                 Concat([i \in 1..Len(results) |-> results[i].paths]), results))

\* write_file: the text returned and the tree afterwards
HandleWriteFile(path, content) ==
    With([path |-> path, content |-> content], LAMBDA args :
    With(Validate(path), LAMBDA v :
         IF ~v.ok THEN [resp |-> Failure("write_file", args, "validate_path", v), fs |-> fs]
         ELSE With(WriteFile(fs, v.value, content), LAMBDA wr :
                   IF ~wr.res.ok
                   THEN [resp |-> Failure("write_file", args, "open", wr.res), fs |-> wr.fs]
                   ELSE [resp |-> Success("write_file", args, <<ToVirtual(v.value)>>, <<>>),
                         fs |-> wr.fs])))

\* edit_file: the text returned and the tree afterwards
EditReply(args, valid_path, virtual_path, ed) ==
    IF ~ed.res.ok
    THEN [resp |-> Failure("edit_file", args, "apply_file_edits_sync", ed.res), fs |-> ed.fs]
    ELSE With(Replace(ed.res.value, valid_path, virtual_path), LAMBDA text :
              [resp |-> Success("edit_file", args,
                                IF text = <<>> THEN <<>>
                                ELSE << Replace(valid_path, valid_path, virtual_path),
                                        Replace(valid_path, valid_path, virtual_path) >>,
                                <<text>>),
               fs |-> ed.fs])

HandleEditFile(path, edits, dryRun) ==
    With([path |-> path, edits |-> edits, dryRun |-> dryRun], LAMBDA args :
    With(Validate(path), LAMBDA v :
         IF ~v.ok THEN [resp |-> Failure("edit_file", args, "validate_path", v), fs |-> fs]
         ELSE EditReply(args, v.value, ToVirtual(v.value),
                        ApplyFileEditsSync(fs, v.value, edits, dryRun))))

\* create_directory: the text returned and the tree afterwards
HandleCreateDirectory(path) ==
    With([path |-> path], LAMBDA args :
    With(Validate(path), LAMBDA v :
         IF ~v.ok THEN [resp |-> Failure("create_directory", args, "validate_path", v), fs |-> fs]
         ELSE With(MakeDirs(fs, v.value), LAMBDA mk :
                   IF ~mk.res.ok
                   THEN [resp |-> Failure("create_directory", args, "makedirs", mk.res),
                         fs |-> mk.fs]
                   ELSE [resp |-> Success("create_directory", args, <<ToVirtual(v.value)>>, <<>>),
                         fs |-> mk.fs])))

\* list_directory
HandleListDirectory(path) ==
    With([path |-> path], LAMBDA args :
    With(Validate(path), LAMBDA v :
         IF ~v.ok THEN Failure("list_directory", args, "validate_path", v)
         ELSE With(ListDir(fs, v.value), LAMBDA entries :
                   IF ~entries.ok THEN Failure("list_directory", args, "listdir", entries)
                   ELSE Success("list_directory", args, <<>>,
                                [i \in 1..Len(entries.value) |->
                                    << IF IsDir(fs, PathJoin(v.value, entries.value[i]))
                                       THEN "DIR" ELSE "FILE",
                                       entries.value[i] >>]))))

\* The absolute paths among the lines of a listing
AbsoluteLines(lines) == SelectSeq(lines, LAMBDA l : IsAbs(l))

\* directory_tree
HandleDirectoryTree(path) ==
    With([path |-> path], LAMBDA args :
    With(Validate(path), LAMBDA v :
         IF ~v.ok THEN Failure("directory_tree", args, "validate_path", v)
         ELSE With(BuildDirectoryTree(fs, real_to_virtual, v.value), LAMBDA t :
                   IF ~t.ok THEN Failure("directory_tree", args, "listdir", t)
                   ELSE Success("directory_tree", args,
                                <<t.value.virtual_root>> \o AbsoluteLines(t.value.lines),
                                t.value.lines))))

\* move_file: the text returned and the tree afterwards
HandleMoveFile(source, destination) ==
    With([source |-> source, destination |-> destination], LAMBDA args :
    With(Validate(source), LAMBDA vs :
         IF ~vs.ok THEN [resp |-> Failure("move_file", args, "validate_path", vs), fs |-> fs]
         ELSE With(Validate(destination), LAMBDA vd :
              IF ~vd.ok THEN [resp |-> Failure("move_file", args, "validate_path", vd), fs |-> fs]
              ELSE With(Rename(fs, vs.value, vd.value), LAMBDA mv :
                   IF ~mv.res.ok
                   THEN [resp |-> Failure("move_file", args, "rename", mv.res), fs |-> mv.fs]
                   ELSE [resp |-> Success("move_file", args,
                                          <<ToVirtual(vs.value), ToVirtual(vd.value)>>, <<>>),
                         fs |-> mv.fs]))))

\* search_files
HandleSearchFiles(path, pattern, excludePatterns) ==
    With([path |-> path, pattern |-> pattern, excludePatterns |-> excludePatterns], LAMBDA args :
    With(Validate(path), LAMBDA v :
         IF ~v.ok THEN Failure("search_files", args, "validate_path", v)
         ELSE With(SearchFiles(fs, real_to_virtual, v.value, pattern, excludePatterns), LAMBDA r :
                   Success("search_files", args,
                           <<r.virtual_root>> \o (IF r.found THEN AbsoluteLines(r.lines) ELSE <<>>),
                           r.lines))))

\* get_file_info
HandleGetFileInfo(path) ==
    With([path |-> path], LAMBDA args :
    With(Validate(path), LAMBDA v :
         IF ~v.ok THEN Failure("get_file_info", args, "validate_path", v)
         ELSE With(Stat(fs, v.value), LAMBDA st :
                   IF ~st.ok THEN Failure("get_file_info", args, "stat", st)
                   ELSE Success("get_file_info", args, <<ToVirtual(v.value)>>, st.value))))

\* list_allowed_directories
HandleListAllowedDirectories ==
    Success("list_allowed_directories", <<>>, DictKeys(virtual_to_real), <<>>)

\* ------------------------------------------------------------------ inputs
\* The command lines main() is started with: one directory, two nested
\* directories in either order, the same directory twice, and a file
ArgvChoices ==
    { <<W>>, <<W, WS>>, <<WS, W>>, <<W \o <<"/">>, W>>, <<WF>> }

VA == Alias(0)
VB == Alias(1)

\* The path arguments of the requests
PathArgs ==
    { VA \o <<"/", "f">>,                       \* a file
      VA \o <<"/", "s">>,                       \* a directory
      VA \o <<"/", "g">>,                       \* no such file, in a directory
      VA \o <<"/", "n", "/", "g">>,             \* no such file, in no directory
      VA \o <<"/", "l", "/", "f">>,             \* through the symlink out of /w
      VA \o <<"/", "s", "/", ".", ".", "/", "f">>,  \* with a .. segment
      VB \o <<"/", "f">>,                       \* under the second alias
      WF }                                      \* a real path, no alias

\* More requested paths, which validate_path is evaluated on in every state
MorePaths ==
    { VA, VB, VA \o <<"x">>, VA \o <<"/">>,
      VA \o <<"/", "l">>, VA \o <<"/", "m">>, VA \o <<"/", "m", "/", "f">>,
      VA \o <<"/", "e">>, VA \o <<"/", "s", "/", "f">>, VA \o <<"/", "/", "f">>,
      VA \o <<"/", ".", ".", "/", "w", "x", "/", "f">>,
      <<"f">>, <<"~">>, <<"~", "/", "f">>, W, WX, WXF, <<"/", "d", "a", "t", "a">> }

Requests == PathArgs \cup MorePaths

ReadPaths == { VA \o <<"/", "f">>, VA \o <<"/", "s">>, VA \o <<"/", "l", "/", "f">>, WF }
BatchPaths == { VA \o <<"/", "f">>, VA \o <<"/", "g">>, VA \o <<"/", "l", "/", "f">> }
Batches == UNION { [1..n -> BatchPaths] : n \in 1..MaxBatch }
Contents == { <<"b", "\n">>, <<"a">> }
EditPaths ==
    { VA \o <<"/", "f">>, VA \o <<"/", "s", "/", "f">>, VA \o <<"/", "g">>,
      VA \o <<"/", "l", "/", "f">> }
Edit(old, new) == [oldText |-> old, newText |-> new]
EditLists ==
    { <<Edit(<<"b">>, <<"a">>)>>,
      <<Edit(<<"a">>, <<"b">>), Edit(<<"b", "\n">>, <<>>)>>,
      <<Edit(<<"x">>, <<"a">>)>> }
ListPaths == { VA, VA \o <<"/", "s">>, VA \o <<"/", "f">>, VA \o <<"/", "l">> }
TreePaths == { VA, VA \o <<"/", "s">>, VA \o <<"/", "e">>, VA \o <<"/", "f">> }
MoveSources ==
    { VA \o <<"/", "f">>, VA \o <<"/", "s">>, VA \o <<"/", "e">>, VA \o <<"/", "g">> }
MoveDestinations ==
    { VA \o <<"/", "s", "/", "f">>, VA \o <<"/", "e">>, VA \o <<"/", "g">>,
      VA \o <<"/", "l", "/", "g">>, VA \o <<"/", "f">> }
SearchRoots == { VA, VA \o <<"/", "s">> }
Patterns == { <<"f">>, <<"*">> }
ExcludeLists == { <<>>, << <<"s">> >>, << <<"t">>, <<"e">> >> }
InfoPaths == { VA \o <<"/", "f">>, VA \o <<"/", "s">>, VA \o <<"/", "g">>, VA \o <<"/", "l">> }

\* ----------------------------------------------------------------- actions
Init ==
    /\ phase = "start"
    /\ allowed_dirs = <<>>
    /\ virtual_to_real = <<>>
    /\ real_to_virtual = <<>>
    /\ fs = InitFS
    /\ nreq = 0
    /\ lastResult = NoResult

\* set_allowed_dirs's three assignments to the module-level names
Configure(cfg) ==
    /\ allowed_dirs' = cfg.allowed_dirs
    /\ virtual_to_real' = cfg.virtual_to_real
    /\ real_to_virtual' = cfg.real_to_virtual

\* main(): every directory must pass os.path.isdir, or the process exits;
\* then set_allowed_dirs and the server runs
Main ==
    /\ phase = "start"
    /\ \E argv \in ArgvChoices :
          IF \E i \in 1..Len(argv) : ~IsDir(fs, AbsPath(ExpandUser(argv[i])))
          THEN phase' = "exited" /\ UNCHANGED maps
          ELSE /\ phase' = "serving"
               /\ Configure(SetAllowedDirs([i \in 1..Len(argv) |-> AbsPath(ExpandUser(argv[i]))]))
    /\ UNCHANGED <<fs, nreq, lastResult>>

\* A request is served: handle_call_tool runs the tool to its return
Serving == phase = "serving" /\ lastResult.tool = "" /\ nreq < MaxRequests

Reply(resp) ==
    /\ lastResult' = resp
    /\ nreq' = nreq + 1
    /\ UNCHANGED <<phase, maps>>

\* The same for a tool that writes: out.resp is returned, out.fs is the tree
ReplyAndStore(out) == Reply(out.resp) /\ fs' = out.fs

ReadFileRequest ==
    /\ Serving
    /\ \E path \in ReadPaths, head \in {None, <<1>>}, tail \in {None, <<1>>} :
          Reply(HandleReadFile(path, head, tail))
    /\ UNCHANGED fs

ReadMultipleFilesRequest ==
    /\ Serving
    /\ \E paths \in Batches : Reply(HandleReadMultipleFiles(paths))
    /\ UNCHANGED fs

WriteFileRequest ==
    /\ Serving
    /\ \E path \in PathArgs, content \in Contents :
          ReplyAndStore(HandleWriteFile(path, content))

EditFileRequest ==
    /\ Serving
    /\ \E path \in EditPaths, edits \in EditLists, dryRun \in BOOLEAN :
          ReplyAndStore(HandleEditFile(path, edits, dryRun))

CreateDirectoryRequest ==
    /\ Serving
    /\ \E path \in PathArgs : ReplyAndStore(HandleCreateDirectory(path))

ListDirectoryRequest ==
    /\ Serving
    /\ \E path \in ListPaths : Reply(HandleListDirectory(path))
    /\ UNCHANGED fs

DirectoryTreeRequest ==
    /\ Serving
    /\ \E path \in TreePaths : Reply(HandleDirectoryTree(path))
    /\ UNCHANGED fs

MoveFileRequest ==
    /\ Serving
    /\ \E source \in MoveSources, destination \in MoveDestinations :
          ReplyAndStore(HandleMoveFile(source, destination))

SearchFilesRequest ==
    /\ Serving
    /\ \E path \in SearchRoots, pattern \in Patterns, excludePatterns \in ExcludeLists :
          Reply(HandleSearchFiles(path, pattern, excludePatterns))
    /\ UNCHANGED fs

GetFileInfoRequest ==
    /\ Serving
    /\ \E path \in InfoPaths : Reply(HandleGetFileInfo(path))
    /\ UNCHANGED fs

ListAllowedDirectoriesRequest ==
    /\ Serving
    /\ Reply(HandleListAllowedDirectories)
    /\ UNCHANGED fs

\* The text goes back to the caller, and the server waits for the next request
Respond ==
    /\ phase = "serving"
    /\ lastResult.tool # ""
    /\ lastResult' = NoResult
    /\ UNCHANGED <<phase, maps, fs, nreq>>

Next ==
    \/ Main
    \/ ReadFileRequest
    \/ ReadMultipleFilesRequest
    \/ WriteFileRequest
    \/ EditFileRequest
    \/ CreateDirectoryRequest
    \/ ListDirectoryRequest
    \/ DirectoryTreeRequest
    \/ MoveFileRequest
    \/ SearchFilesRequest
    \/ GetFileInfoRequest
    \/ ListAllowedDirectoriesRequest
    \/ Respond

Spec == Init /\ [][Next]_vars

\* ------------------------------------------------------------ the claims
\* The server is waiting for a request
Idle == phase = "serving" /\ lastResult.tool = ""

\* The segments of a path, and whether path p is directory d or lies below it,
\* segment by segment
Segments(p) == SelectSeq(Split(p, Sep), LAMBDA c : c # <<>>)
SegmentInside(p, d) ==
    /\ Len(Segments(d)) <= Len(Segments(p))
    /\ SubSeq(Segments(p), 1, Len(Segments(d))) = Segments(d)
InsideSomeAllowed(p) == \E i \in 1..Len(allowed_dirs) : SegmentInside(p, allowed_dirs[i])

\* Whether a requested path is an alias or an alias followed by "/..."
MatchesAlias(requested_path) ==
    \E i \in 1..Len(virtual_to_real) :
        \/ requested_path = virtual_to_real[i][1]
        \/ StartsWith(requested_path, virtual_to_real[i][1] \o <<Sep>>)

\* C1: whatever the tree and the allowed directories, validate_path of any
\* requested path either raises or returns a path that is free of symlinks and
\* is an allowed directory or lies below one, segment by segment; a path that
\* resolves (through a symlink or otherwise) to a place outside every allowed
\* directory is refused with PermissionError "Access denied".
C1_ValidatedPathInsideAllowed ==
    Idle =>
        \A req \in Requests :
            /\ Validate(req).ok =>
                  /\ InsideSomeAllowed(Validate(req).value)
                  /\ RealPath(fs, Validate(req).value) = Validate(req).value
            /\ ~InsideSomeAllowed(RealPath(fs, NormPath(AbsPath(ExpandRequested(virtual_to_real, req))))) =>
                  /\ ~Validate(req).ok
                  /\ Validate(req).exc = "PermissionError"
                  /\ Validate(req).msg = "Access denied"

\* C1's case: /w is allowed and /wx is not, the path through the symlink /w/l
\* to /wx/f was requested and refused, and a path inside /w validates
C1_Witness ==
    /\ lastResult.tool = "read_file"
    /\ lastResult.args.path = VA \o <<"/", "l", "/", "f">>
    /\ ~lastResult.ok
    /\ lastResult.stage = "validate_path"
    /\ lastResult.exc = "PermissionError"
    /\ ~InsideSomeAllowed(WX)
    /\ IsFile(fs, WXF)
    /\ Validate(VA \o <<"/", "s", "/", "f">>).ok

\* C2: a requested path that matches no alias is never resolved: validate_path
\* raises an invalid-virtual-path error for it.
C2_UnknownPrefixRejected ==
    Idle =>
        \A req \in Requests :
            ~MatchesAlias(req) =>
                /\ ~Validate(req).ok
                /\ Validate(req).msg = "Invalid virtual path"

\* The path a virtual request names, before any symlink is followed
Target(requested_path) == NormPath(AbsPath(ExpandRequested(virtual_to_real, requested_path)))

\* A request is served in this step by the named tool
Serves(tool) == lastResult.tool = "" /\ lastResult'.tool = tool

\* C3: write_file of a virtual path whose target does not exist: when the
\* parent directory exists and resolves inside an allowed directory the call
\* succeeds and the file is there with the content; when the parent does not
\* exist validate_path raises "Parent directory does not exist" and the tree
\* is unchanged.
C3_NewFileNeedsParent ==
    [][ (Serves("write_file") /\ MatchesAlias(lastResult'.args.path)
            /\ ~Exists(fs, Target(lastResult'.args.path))) =>
           /\ (/\ IsDir(fs, DirName(Target(lastResult'.args.path)))
               /\ InsideSomeAllowed(RealPath(fs, DirName(Target(lastResult'.args.path))))) =>
                  /\ lastResult'.ok
                  /\ IsFile(fs', Target(lastResult'.args.path))
                  /\ ReadFile(fs', Target(lastResult'.args.path)).value = lastResult'.args.content
           /\ ~Exists(fs, DirName(Target(lastResult'.args.path))) =>
                  /\ ~lastResult'.ok
                  /\ lastResult'.stage = "validate_path"
                  /\ lastResult'.msg = "Parent directory does not exist"
                  /\ fs' = fs ]_vars

\* C4: move_file of a source onto a different path that exists returns an
\* error and changes nothing in the tree.
C4_MoveNeverOverwrites ==
    [][ (Serves("move_file")
            /\ Validate(lastResult'.args.source).ok
            /\ Validate(lastResult'.args.destination).ok
            /\ Validate(lastResult'.args.destination).value \in DOMAIN fs
            /\ Validate(lastResult'.args.source).value
                  # Validate(lastResult'.args.destination).value) =>
           /\ ~lastResult'.ok
           /\ fs' = fs ]_vars

\* C5: edit_file with dryRun=true leaves the tree as it was; when it succeeds
\* and the edits change the file's content the diff it returns is not empty,
\* and it is the text the same request without dryRun returns.
C5_DryRunDoesNotWrite ==
    [][ (Serves("edit_file") /\ lastResult'.args.dryRun) =>
           /\ fs' = fs
           /\ lastResult'.ok =>
                 /\ (ApplyEdits(ReadFile(fs, Validate(lastResult'.args.path).value).value,
                                lastResult'.args.edits)
                        # ReadFile(fs, Validate(lastResult'.args.path).value).value)
                       => lastResult'.body[1] # <<>>
                 /\ lastResult'.body
                       = HandleEditFile(lastResult'.args.path, lastResult'.args.edits, FALSE).resp.body
                 /\ lastResult'.paths
                       = HandleEditFile(lastResult'.args.path, lastResult'.args.edits, FALSE).resp.paths ]_vars

\* C5's case: a dry run whose two edits change /w/f has returned a diff
C5_Witness ==
    /\ lastResult.tool = "edit_file"
    /\ lastResult.args.dryRun
    /\ lastResult.args.path = VA \o <<"/", "f">>
    /\ Len(lastResult.args.edits) = 2
    /\ lastResult.ok
    /\ lastResult.body[1] # <<>>
    /\ nreq = 1
    /\ fs = InitFS

\* A path under an alias /data/<letter>
IsVirtualPath(p) ==
    /\ Len(p) >= 7
    /\ SubSeq(p, 1, 6) = <<"/", "d", "a", "t", "a", "/">>
    /\ Ord(p[7]) \in 97..122
    /\ (Len(p) = 7 \/ p[8] = Sep)

\* C6: every path in the text a tool request returns, a result or an error,
\* is a virtual path.
C6_NoRealPathInText ==
    \A i \in 1..Len(lastResult.paths) : IsVirtualPath(lastResult.paths[i])

\* A virtual path in canonical form: an alias, or an alias followed by
\* non-empty segments other than "." and "..", without a trailing separator
Canonical(v) == MatchesAlias(v) /\ NormPath(v) = v

\* The position in the configuration of the alias a virtual path starts with
AliasIndex(v) ==
    CHOOSE i \in 1..Len(allowed_dirs) : v = Alias(i - 1) \/ StartsWith(v, Alias(i - 1) \o <<Sep>>)

\* The virtual path's alias is the one the configuration gives its target:
\* no other directory configured earlier contains the target, and the alias's
\* directory is not configured again later
AliasOfTarget(v) ==
    \A j \in 1..Len(allowed_dirs) :
        /\ j < AliasIndex(v) =>
              \/ allowed_dirs[j] = allowed_dirs[AliasIndex(v)]
              \/ ~SegmentInside(Target(v), allowed_dirs[j])
        /\ j > AliasIndex(v) => allowed_dirs[j] # allowed_dirs[AliasIndex(v)]

\* C7 as stated: every virtual path that validate_path resolves and whose
\* target exists is what convert_to_virtual_path gives back for the result.
C7_RoundTrip ==
    Idle =>
        \A v \in Requests :
            (MatchesAlias(v) /\ Validate(v).ok /\ Validate(v).value \in DOMAIN fs)
                => ToVirtual(Validate(v).value) = v

\* C7: the round trip holds for a virtual path in canonical form that goes
\* through no symlink and carries the alias the configuration gives its
\* target, when validate_path resolves it and the target exists.
C7_RoundTripCanonical ==
    Idle =>
        \A v \in Requests :
            (/\ Canonical(v)
             /\ RealPath(fs, Target(v)) = Target(v)
             /\ AliasOfTarget(v)
             /\ Validate(v).ok
             /\ Validate(v).value \in DOMAIN fs)
                => ToVirtual(Validate(v).value) = v

\* C7's case: with /w and /w/s both allowed, /data/a/s has been resolved to
\* /w/s, which lies in both, and came back as /data/a/s
C7_Witness ==
    /\ allowed_dirs = <<W, WS>>
    /\ lastResult.tool = "get_file_info"
    /\ lastResult.args.path = VA \o <<"/", "s">>
    /\ lastResult.ok
    /\ lastResult.paths = <<VA \o <<"/", "s">>>>
    /\ Canonical(VA \o <<"/", "s">>)
    /\ AliasOfTarget(VA \o <<"/", "s">>)
    /\ Validate(VA \o <<"/", "s">>).value = WS

\* The paths of a list without the repetitions, in order of first occurrence
RECURSIVE Distinct(_)
Distinct(paths) ==
    IF paths = <<>> THEN <<>>
    ELSE <<Head(paths)>> \o Distinct(SelectSeq(Tail(paths), LAMBDA p : p # Head(paths)))

\* C8: read_multiple_files returns one block for each distinct path of the
\* request, in order of first occurrence; the block of a path that validates
\* and can be read holds the file's content, the block of any other path is
\* an error block for that path, whatever happened to the paths before it.
C8_OneBlockPerDistinctPath ==
    lastResult.tool = "read_multiple_files" =>
        /\ lastResult.ok
        /\ Len(lastResult.body) = Len(Distinct(lastResult.args.paths))
        /\ \A i \in 1..Len(lastResult.body) :
              /\ lastResult.body[i].input = Distinct(lastResult.args.paths)[i]
              /\ lastResult.body[i].ok
                    = (/\ Validate(lastResult.body[i].input).ok
                       /\ ReadFile(fs, Validate(lastResult.body[i].input).value).ok)
              /\ lastResult.body[i].ok =>
                    lastResult.body[i].text
                       = ReadFile(fs, Validate(lastResult.body[i].input).value).value
              /\ ~lastResult.body[i].ok =>
                    /\ lastResult.body[i].header = lastResult.body[i].input
                    /\ lastResult.body[i].exc # ""

\* C8's case: a request that names a refused path twice around a readable one
\* has returned two blocks, the error first
C8_Witness ==
    /\ lastResult.tool = "read_multiple_files"
    /\ lastResult.args.paths
          = <<VA \o <<"/", "l", "/", "f">>, VA \o <<"/", "f">>, VA \o <<"/", "l", "/", "f">>>>
    /\ Len(lastResult.body) = 2
    /\ ~lastResult.body[1].ok
    /\ lastResult.body[1].exc = "PermissionError"
    /\ lastResult.body[2].ok
    /\ lastResult.body[2].text = ReadFile(fs, WF).value

\* C9: once the server is configured the alias maps pair /data/a, /data/b, ...
\* with the allowed directories in configuration order, one alias for each
\* directory and one directory for each alias, each map the inverse of the
\* other.
C9_AliasMapsBijective ==
    phase = "serving" =>
        /\ Len(virtual_to_real) = Len(allowed_dirs)
        /\ Len(real_to_virtual) = Len(allowed_dirs)
        /\ \A i \in 1..Len(allowed_dirs) :
              /\ virtual_to_real[i] = <<Alias(i - 1), allowed_dirs[i]>>
              /\ DictHas(real_to_virtual, allowed_dirs[i])
              /\ DictGet(real_to_virtual, allowed_dirs[i]) = Alias(i - 1)
        /\ \A i, j \in 1..Len(allowed_dirs) : allowed_dirs[i] = allowed_dirs[j] => i = j

\* The directories strictly between the searched root and an entry below it
Between(root, p) == {d \in Ancestors(p) : root \in Ancestors(d)}

\* C10: a search_files result has no line for an entry that lies, at any
\* depth, inside a subdirectory of the searched root whose name matches an
\* exclude pattern, whether or not the entry's name matches the pattern.
C10_ExcludedSubtreesPruned ==
    (lastResult.tool = "search_files" /\ lastResult.ok) =>
        \A p \in Under(fs, Validate(lastResult.args.path).value) :
            (\E d \in Between(Validate(lastResult.args.path).value, p) :
                  Excluded(BaseName(d), lastResult.args.excludePatterns))
               => \A i \in 1..Len(lastResult.body) :
                     lastResult.body[i]
                        # SearchEntry(fs, real_to_virtual,
                                      ToVirtual(Validate(lastResult.args.path).value),
                                      DirName(p), BaseName(p))

\* C10's case: a search of /w for "f" that excludes "s", while /w/s/f and
\* /w/s/t/F exist, has returned /w/f alone
C10_Witness ==
    /\ lastResult.tool = "search_files"
    /\ lastResult.args.path = VA
    /\ lastResult.args.pattern = <<"f">>
    /\ lastResult.args.excludePatterns = << <<"s">> >>
    /\ allowed_dirs = <<W>>
    /\ IsFile(fs, WSF)
    /\ IsFile(fs, WSTF)
    /\ IsFile(fs, WF)
    /\ lastResult.ok
    /\ lastResult.body = << <<"f">> >>

\* C11: a directory_tree result has a line for every file under the target,
\* at any depth and directly in the target too, with its path relative to the
\* target, a line ending in a separator for every empty directory under the
\* target, and for an empty target the target's own virtual path with a
\* separator and nothing else.
C11_TreeListsEveryEntry ==
    (lastResult.tool = "directory_tree" /\ lastResult.ok) =>
        /\ \A p \in Under(fs, Validate(lastResult.args.path).value) :
              /\ fs[p].kind = "file" =>
                    \E i \in 1..Len(lastResult.body) :
                        lastResult.body[i] = RelPath(p, Validate(lastResult.args.path).value)
              /\ (fs[p].kind = "dir" /\ Children(fs, p) = {}) =>
                    \E i \in 1..Len(lastResult.body) :
                        lastResult.body[i]
                           = RelPath(p, Validate(lastResult.args.path).value) \o <<Sep>>
        /\ Children(fs, Validate(lastResult.args.path).value) = {} =>
              lastResult.body = <<ToVirtual(Validate(lastResult.args.path).value) \o <<Sep>>>>

====
